---- MODULE Spec2Model ----
(***************************************************************************)
(* A model of eyes, a concurrent TCP port scanner (src/src/main.rs).       *)
(*                                                                         *)
(*   - parse_ports: the port set resolver, a pure function from the text   *)
(*     of the --ports argument to a Vec<u16>.  Text is a sequence of       *)
(*     one-character strings.  Checked under SpecParse.                    *)
(*   - scan / open_port: the bounded-concurrency probing engine, driven by *)
(*     StreamExt::for_each_concurrent.  Checked under Spec (safety) and    *)
(*     FairSpec (termination).                                             *)
(***************************************************************************)
EXTENDS Integers, Sequences, FiniteSets, Bags, TLC

VARIABLES
    ports_arg,      \* parse_ports: the argument text
    ppc,            \* parse_ports: "idle" | "call" | "returned" | "panicked"
    ret,            \* parse_ports: the Vec<u16> returned (<<>> until it returns)
    sc,             \* the ScanConfig
    pc,             \* scan: "idle" | "loop" | "poll_futures" | "pending" | "println" | "done"
    port_stream,    \* scan: the elements stream::iter has still to yield
    stream_done,    \* scan: the stream returned None (this.stream.set(None))
    futures,        \* scan: ids of the open_port futures held by for_each_concurrent
    conn,           \* open_port: per started probe, "pending" or the outcome of the connect
    started,        \* history: the port of every open_port call, in call order
    made_progress,  \* scan: made_progress_this_iter of the poll loop
    stdout,         \* the lines printed so far
    printed         \* history: per started probe, the lines it printed

vars == <<ports_arg, ppc, ret, sc, pc, port_stream, stream_done, futures, conn,
          started, made_progress, stdout, printed>>

parseVars == <<ports_arg, ppc, ret>>
scanVars == <<sc, pc, port_stream, stream_done, futures, conn, started,
              made_progress, stdout, printed>>

(***************************************************************************)
(* Bounds.                                                                 *)
(***************************************************************************)
MaxLen == 4         \* longest exhaustively enumerated --ports text
MaxPorts == 3       \* longest port sequence given to scan
MaxConc == 3        \* largest concurrency given to scan

(***************************************************************************)
(* Text.                                                                   *)
(***************************************************************************)
Digits == <<"0", "1", "2", "3", "4", "5", "6", "7", "8", "9">>

IsDigit(c) == \E d \in 1..10 : Digits[d] = c

DigitVal(c) == (CHOOSE d \in 1..10 : Digits[d] = c) - 1

\* The decimal numeral of n, as a user writes it (no sign, no leading zero).
RECURSIVE Fmt(_)
Fmt(n) == IF n < 10 THEN <<Digits[n + 1]>>
          ELSE Fmt(n \div 10) \o <<Digits[(n % 10) + 1]>>

\* All texts over alphabet A of length at most n.
RECURSIVE Texts(_, _)
Texts(A, n) == IF n = 0 THEN {<<>>}
               ELSE LET shorter == Texts(A, n - 1)
                    IN  shorter \cup {Append(t, c) : t \in shorter, c \in A}

\* str::contains for a one-character pattern.
Contains(s, c) == \E i \in 1..Len(s) : s[i] = c

\* str::split for a one-character separator: the pieces between separators,
\* empty pieces included; a text without separator is its own single piece.
RECURSIVE Split(_, _)
Split(s, sep) ==
    IF ~Contains(s, sep) THEN <<s>>
    ELSE LET i == CHOOSE j \in 1..Len(s) :
                      s[j] = sep /\ \A k \in 1..(j - 1) : s[k] # sep
         IN  <<SubSeq(s, 1, i - 1)>> \o Split(SubSeq(s, i + 1, Len(s)), sep)

(***************************************************************************)
(* u16.                                                                    *)
(***************************************************************************)
U16Max == 65535

Err == [ok |-> FALSE, val |-> 0]
Ok(v) == [ok |-> TRUE, val |-> v]

\* One step of the checked accumulation of str::parse::<u16>: acc * 10 + d,
\* an error when the product or the sum leaves the u16 range.
AccStrict(acc, d) == IF acc * 10 + d >= U16Max THEN Err ELSE Ok(acc * 10 + d)
Acc(acc, d) == IF acc * 10 > U16Max \/ acc * 10 + d > U16Max THEN Err
               ELSE Ok(acc * 10 + d)

RECURSIVE ParseDigits(_, _, _)
ParseDigits(s, i, acc) ==
    IF i > Len(s) THEN Ok(acc)
    ELSE IF ~IsDigit(s[i]) THEN Err
    ELSE LET r == Acc(acc, DigitVal(s[i]))
         IN  IF r.ok THEN ParseDigits(s, i + 1, r.val) ELSE Err

\* str::parse::<u16>: an optional leading "+", then one or more decimal
\* digits with a value of at most 65535; anything else is an error.
ParseU16(s) ==
    IF Len(s) = 0 THEN Err
    ELSE IF s[1] = "+" THEN (IF Len(s) = 1 THEN Err ELSE ParseDigits(s, 2, 0))
    ELSE ParseDigits(s, 1, 0)

\* The elements of the RangeInclusive<u16> lo..=hi in iteration order: empty
\* when lo > hi, and hi itself is yielded also when hi = 65535.
RangeExclusive(lo, hi) == [i \in 1..(hi - lo) |-> lo + i - 1]
RangeEitherWay(lo, hi) == IF lo > hi THEN [i \in 1..(lo - hi + 1) |-> lo - (i - 1)]
                          ELSE [i \in 1..(hi - lo + 1) |-> lo + i - 1]
RangeInclusive(lo, hi) == [i \in 1..(hi - lo + 1) |-> lo + i - 1]

(***************************************************************************)
(* parse_ports.                                                            *)
(***************************************************************************)
Returned(v) == [panicked |-> FALSE, ports |-> v]
Panicked == [panicked |-> TRUE, ports |-> <<>>]

DefaultLow == 1
DefaultHigh == 1024

\* A range `x-z`: every piece between dashes is parsed and unwrapped (a piece
\* that is no u16 panics), then the first two pieces bound the range.
RangePorts(p) ==
    LET pieces == Split(p, "-")
        bounds == [i \in 1..Len(pieces) |-> ParseU16(pieces[i])]
    IN  IF \E i \in 1..Len(bounds) : ~bounds[i].ok THEN Panicked
        ELSE Returned(RangeInclusive(bounds[1].val, bounds[2].val))

\* A list item: a range when it holds a dash, else a single port that is
\* pushed when it parses and skipped when it does not.
ItemPorts(p) ==
    IF Contains(p, "-") THEN RangePorts(p)
    ELSE IF ParseU16(p).ok THEN Returned(<<ParseU16(p).val>>)
    ELSE Returned(<<>>)

\* The loop over the items of a list `x,y,z`, extending `ports` item by item.
RECURSIVE ListPortsPrepend(_, _)
ListPortsPrepend(items, ports) ==
    IF items = <<>> THEN Returned(ports)
    ELSE LET r == ItemPorts(Head(items))
         IN  IF r.panicked THEN Panicked
             ELSE ListPortsPrepend(Tail(items), r.ports \o ports)
RECURSIVE ListPorts(_, _)
ListPorts(items, ports) ==
    IF items = <<>> THEN Returned(ports)
    ELSE LET r == ItemPorts(Head(items))
         IN  IF r.panicked THEN Panicked
             ELSE ListPorts(Tail(items), ports \o r.ports)

parse_ports(arg) ==
    IF Contains(arg, ",") THEN ListPorts(Split(arg, ","), <<>>)
    ELSE IF Contains(arg, "-") THEN RangePorts(arg)
    ELSE IF ParseU16(arg).ok THEN Returned(<<ParseU16(arg).val>>)
    ELSE Returned(RangeInclusive(DefaultLow, DefaultHigh))

(***************************************************************************)
(* The texts parse_ports is applied to: every text of at most MaxLen       *)
(* characters over a small alphabet, the numerals and ranges of the sample *)
(* ports (the ends of the u16 range included), and texts named in the      *)
(* documentation of the resolver.                                          *)
(***************************************************************************)
Alphabet == {"0", "1", "7", ",", "-", "a", "+"}

SamplePorts == {0, 1, 9, 10, 22, 1024, 65534, 65535}

SampleRanges ==
    {<<a, b>> : a \in {0, 1, 9, 10, 22}, b \in {0, 1, 9, 10, 22, 1024}}
        \cup {<<0, 65535>>, <<65534, 65535>>, <<65535, 65535>>, <<65534, 65534>>,
              <<1024, 1024>>, <<65535, 0>>, <<65535, 65534>>}

RangeText(a, b) == Fmt(a) \o <<"-">> \o Fmt(b)

NamedTexts ==
    { <<"2","2",",","8","0",",","8","0","0","0","-","8","0","0","2">>,
      <<"n","o","t","-","a","-","p","o","r","t">>,
      <<"a","b","c",",","d","e","f">>,
      <<"2","2",",","x","-","y",",","8","0">>,
      <<"7","0","0","0","0">>,
      <<"6","5","5","3","6">>,
      <<"1","-","7","0","0","0","0">>,
      <<"8","0",",","7","0","0","0","0">>,
      <<"1","-","3",",","2","-","4">>,
      <<"8","0",",","8","0">>,
      <<"2","2",",","5","-","3",",","8","0">> }

PortTexts ==
    Texts(Alphabet, MaxLen)
        \cup {Fmt(p) : p \in SamplePorts}
        \cup {RangeText(r[1], r[2]) : r \in SampleRanges}
        \cup NamedTexts

ScanIdle ==
    /\ sc = [target_ip |-> "127.0.0.1", ports |-> <<>>, concurrency |-> 1000,
             timeout |-> 3, verbose |-> FALSE]
    /\ pc = "idle"
    /\ port_stream = <<>>
    /\ stream_done = FALSE
    /\ futures = {}
    /\ conn = <<>>
    /\ started = <<>>
    /\ made_progress = FALSE
    /\ stdout = <<>>
    /\ printed = <<>>

InitParse ==
    /\ ports_arg \in PortTexts
    /\ ppc = "call"
    /\ ret = <<>>
    /\ ScanIdle

\* init_scan_config calls parse_ports on the --ports text.
ParsePorts ==
    /\ ppc = "call"
    /\ LET r == parse_ports(ports_arg)
       IN  /\ ppc' = IF r.panicked THEN "panicked" ELSE "returned"
           /\ ret' = r.ports
    /\ UNCHANGED <<ports_arg, scanVars>>

NextParse == ParsePorts

SpecParse == InitParse /\ [][NextParse]_vars

ParseTypeOK ==
    /\ ppc \in {"call", "returned", "panicked"}
    /\ \A i \in 1..Len(ret) : ret[i] \in 0..U16Max

(***************************************************************************)
(* scan and open_port.                                                     *)
(***************************************************************************)
PortSet == {22, 80}
TargetIps == {"127.0.0.1"}
TimeoutSecs == {3}

\* All sequences over S of length at most n.
RECURSIVE SeqsUpTo(_, _)
SeqsUpTo(S, n) == IF n = 0 THEN {<<>>}
                  ELSE LET shorter == SeqsUpTo(S, n - 1)
                       IN  shorter \cup {Append(t, x) : t \in shorter, x \in S}

ScanConfigs ==
    [target_ip : TargetIps, ports : SeqsUpTo(PortSet, MaxPorts),
     concurrency : 0..MaxConc, timeout : TimeoutSecs, verbose : BOOLEAN]

NoPort == -1
Line(port, word) == [port |-> port, text |-> word]
FinishedLine == [port |-> NoPort, text |-> "[eyes] Finished scan"]

Outcomes == {"Open", "TimedOut", "ConnectionError"}

\* for_each_concurrent's gate: a limit of 0 is no limit; otherwise another
\* future is created only while the limit exceeds the number held.
LimitAllowsOffByOne(limit, held) == limit = 0 \/ limit >= held
LimitAllowsWhenIdle(limit, held) == limit = 0 \/ held = 0
LimitAllowsZeroIsLimit(limit, held) == limit > held
LimitAllows(limit, held) == limit = 0 \/ limit > held

\* for_each_concurrent is ready once the stream has ended and no future is held.
ScanFinishedEarly(held, ended) == ended
ScanFinishedAfterLast(held, ended) == ended /\ held # {}
ScanFinished(held, ended) == held = {} /\ ended

\* tokio::time::timeout ends a connect that has not answered.
ElapsesNever(st) == FALSE
Elapses(st) == st = "pending"

\* The match of open_port: what a probe prints for the outcome of its connect.
OpenPortLinesAlways(port, outcome, verbose) ==
    IF outcome = "Open" THEN <<Line(port, "open")>> ELSE <<Line(port, "closed")>>
OpenPortLines(port, outcome, verbose) ==
    IF outcome = "Open" THEN <<Line(port, "open")>>
    ELSE IF verbose THEN <<Line(port, "closed")>>
    ELSE <<>>

\* The ScanConfig after sc.ports.clone(): the clone reads its source only.
Taken(c) == [c EXCEPT !.ports = <<>>]
Cloned(c) == c

\* What stream::iter yields next: the first remaining element.
NextElemLast(stream) == stream[Len(stream)]
NextElem(stream) == Head(stream)

\* The stream after yielding an element.
RestKeep(stream) == stream
Rest(stream) == Tail(stream)

Init ==
    /\ ports_arg = <<>>
    /\ ppc = "idle"
    /\ ret = <<>>
    /\ sc \in ScanConfigs
    /\ pc = "scan"
    /\ port_stream = <<>>
    /\ stream_done = FALSE
    /\ futures = {}
    /\ conn = <<>>
    /\ started = <<>>
    /\ made_progress = FALSE
    /\ stdout = <<>>
    /\ printed = <<>>

\* scan: the stream over a clone of sc.ports.
ScanStart ==
    /\ pc = "scan"
    /\ port_stream' = sc.ports
    /\ sc' = Cloned(sc)
    /\ pc' = "loop"
    /\ UNCHANGED <<parseVars, stream_done, futures, conn, started,
                   made_progress, stdout, printed>>

\* The first half of an iteration of for_each_concurrent's poll loop: under
\* the limit, take the next element of the stream and create its open_port
\* future, or note the end of the stream.
PollAdmit ==
    /\ pc = "loop"
    /\ pc' = "poll_futures"
    /\ IF LimitAllows(sc.concurrency, Cardinality(futures))
       THEN IF port_stream # <<>>
            THEN /\ started' = Append(started, NextElem(port_stream))
                 /\ port_stream' = Rest(port_stream)
                 /\ futures' = futures \cup {Len(started) + 1}
                 /\ conn' = Append(conn, "pending")
                 /\ printed' = Append(printed, <<>>)
                 /\ made_progress' = TRUE
                 /\ UNCHANGED stream_done
            ELSE /\ stream_done' = TRUE
                 /\ made_progress' = FALSE
                 /\ UNCHANGED <<port_stream, futures, conn, started, printed>>
       ELSE /\ made_progress' = FALSE
            /\ UNCHANGED <<port_stream, stream_done, futures, conn, started, printed>>
    /\ UNCHANGED <<parseVars, sc, stdout>>

\* The second half: poll the held futures.  A probe whose connect has an
\* outcome prints its line and completes; with nothing held and the stream
\* ended the scan is ready; without progress in this iteration the task
\* returns Pending.
PollFutures ==
    /\ pc = "poll_futures"
    /\ IF ScanFinished(futures, stream_done)
       THEN /\ pc' = "println"
            /\ UNCHANGED <<futures, stdout, printed, made_progress>>
       ELSE IF \E id \in futures : conn[id] # "pending"
       THEN \E id \in futures :
                /\ conn[id] # "pending"
                /\ LET lines == OpenPortLines(started[id], conn[id], sc.verbose)
                   IN  /\ stdout' = stdout \o lines
                       /\ printed' = [printed EXCEPT ![id] = @ \o lines]
                /\ futures' = futures \ {id}
                /\ made_progress' = TRUE
                /\ pc' = "loop"
       ELSE /\ pc' = IF made_progress THEN "loop" ELSE "pending"
            /\ UNCHANGED <<futures, stdout, printed, made_progress>>
    /\ UNCHANGED <<parseVars, sc, port_stream, stream_done, conn, started>>

\* The task is woken by a held probe whose connect has an outcome.
Wake ==
    /\ pc = "pending"
    /\ \E id \in futures : conn[id] # "pending"
    /\ pc' = "loop"
    /\ UNCHANGED <<parseVars, sc, port_stream, stream_done, futures, conn,
                   started, made_progress, stdout, printed>>

\* scan: println!("[eyes] Finished scan").
Println ==
    /\ pc = "println"
    /\ stdout' = Append(stdout, FinishedLine)
    /\ pc' = "done"
    /\ UNCHANGED <<parseVars, sc, port_stream, stream_done, futures, conn,
                   started, made_progress, printed>>

\* The target answers a connect: it accepts, or it refuses or errors.
ConnectAnswers(id, o) ==
    /\ id \in futures
    /\ pc \in {"loop", "poll_futures", "pending"}
    /\ conn[id] = "pending"
    /\ conn' = [conn EXCEPT ![id] = o]
    /\ UNCHANGED <<parseVars, sc, pc, port_stream, stream_done, futures,
                   started, made_progress, stdout, printed>>

\* The timeout of a connect that has not answered elapses.
TimerElapses(id) ==
    /\ id \in futures
    /\ pc \in {"loop", "poll_futures", "pending"}
    /\ Elapses(conn[id])
    /\ conn' = [conn EXCEPT ![id] = "TimedOut"]
    /\ UNCHANGED <<parseVars, sc, pc, port_stream, stream_done, futures,
                   started, made_progress, stdout, printed>>

ScanStep == ScanStart \/ PollAdmit \/ PollFutures \/ Wake \/ Println

Next ==
    \/ ScanStart
    \/ PollAdmit
    \/ PollFutures
    \/ Wake
    \/ Println
    \/ \E id \in 1..MaxPorts, o \in {"Open", "ConnectionError"} : ConnectAnswers(id, o)
    \/ \E id \in 1..MaxPorts : TimerElapses(id)

Spec == Init /\ [][Next]_vars

\* The runtime keeps polling a task that can run, and every timer that is
\* armed elapses; the target need never answer.
FairSpec ==
    /\ Init
    /\ [][Next]_vars
    /\ WF_vars(ScanStep)
    /\ \A id \in 1..MaxPorts : WF_vars(TimerElapses(id))

TypeOK ==
    /\ sc \in ScanConfigs
    /\ pc \in {"scan", "loop", "poll_futures", "pending", "println", "done"}
    /\ futures \subseteq 1..Len(started)
    /\ Len(conn) = Len(started)
    /\ Len(printed) = Len(started)
    /\ \A id \in 1..Len(conn) : conn[id] \in Outcomes \cup {"pending"}

(***************************************************************************)
(* Properties of scan and open_port.                                       *)
(***************************************************************************)
\* The number of occurrences of x in seq.
Count(seq, x) == Cardinality({i \in 1..Len(seq) : seq[i] = x})

Completed == (1..Len(started)) \ futures

\* C1: with a positive concurrency k, the probes started and not yet
\* completed never number more than k, whatever the interleaving of
\* admissions and completions.
C1_ConcurrencyBound ==
    sc.concurrency > 0 => Cardinality(futures) <= sc.concurrency

\* The gate is full while ports still wait and the loop has just been refused
\* an admission.
C1_GateFull ==
    /\ sc.concurrency > 0
    /\ sc.concurrency < Len(sc.ports)
    /\ Cardinality(futures) = sc.concurrency
    /\ port_stream # <<>>
    /\ Completed # {}
    /\ pc = "poll_futures"
    /\ ~made_progress

\* C2: every occurrence of a port in sc.ports is probed exactly once: at no
\* time has open_port been started for a port more often than the port
\* occurs, and when the scan ends it has been started exactly that often.
C2_ProbedExactlyOnce ==
    /\ \A p \in PortSet : Count(started, p) <= Count(sc.ports, p)
    /\ Len(started) <= Len(sc.ports)
    /\ pc = "done" =>
          /\ \A p \in PortSet : Count(started, p) = Count(sc.ports, p)
          /\ Len(started) = Len(sc.ports)

\* A scan over a sequence with a repeated port and another port has ended
\* after running two probes at a time.
C2_ScanOfRepeatedPortEnded ==
    /\ pc = "done"
    /\ Len(sc.ports) >= 3
    /\ sc.ports[1] = sc.ports[3]
    /\ sc.ports[1] # sc.ports[2]
    /\ sc.concurrency = 2

\* C3: the completion line is printed at most once and exactly once by the
\* end of the scan, only when the queue is drained and every started probe
\* has completed, and it stays the last line printed.
C3_CompletionLine ==
    /\ Count(stdout, FinishedLine) <= 1
    /\ pc = "done" => Count(stdout, FinishedLine) = 1
    /\ Count(stdout, FinishedLine) = 1 =>
          /\ port_stream = <<>>
          /\ futures = {}
          /\ Len(started) = Len(sc.ports)
          /\ \A id \in 1..Len(conn) : conn[id] \in Outcomes
          /\ stdout[Len(stdout)] = FinishedLine

\* The completion line has been printed after the lines of several probes
\* that ran concurrently.
C3_FinishedAfterPortLines ==
    /\ pc = "done"
    /\ sc.concurrency >= 2
    /\ Len(stdout) >= 3
    /\ stdout[Len(stdout)] = FinishedLine

\* C4: a completed probe whose connect succeeded has printed exactly the one
\* line "<port>: open", verbose or not; one whose connect timed out or
\* failed has printed exactly the one line "<port>: closed" when verbose and
\* nothing otherwise, the same in both cases; a probe in flight has printed
\* nothing, and stdout holds no other per-port line.
RECURSIVE TotalLen(_)
TotalLen(seqs) == IF seqs = <<>> THEN 0 ELSE Len(Head(seqs)) + TotalLen(Tail(seqs))

C4_OneLinePerOutcome ==
    /\ \A id \in Completed :
          /\ conn[id] = "Open" => printed[id] = <<Line(started[id], "open")>>
          /\ conn[id] \in {"TimedOut", "ConnectionError"} =>
                printed[id] = IF sc.verbose THEN <<Line(started[id], "closed")>>
                              ELSE <<>>
    /\ \A id \in futures : printed[id] = <<>>
    /\ Len(stdout) = TotalLen(printed) + Count(stdout, FinishedLine)
    /\ \A id \in 1..Len(printed) : \A i \in 1..Len(printed[id]) :
          Count(stdout, printed[id][i]) >= 1

\* A quiet scan has ended with an open port, a port that timed out and a port
\* whose connect failed.
C4_QuietScanOfEachOutcome ==
    /\ pc = "done"
    /\ ~sc.verbose
    /\ \E i, j, k \in 1..Len(conn) :
          conn[i] = "Open" /\ conn[j] = "TimedOut" /\ conn[k] = "ConnectionError"
    /\ Len(stdout) = 2

\* C5: under fair scheduling every scan ends: every port has been probed,
\* every probe has an outcome, and the completion line is printed.
C5_ScanTerminates ==
    <>(/\ pc = "done"
       /\ Len(started) = Len(sc.ports)
       /\ \A id \in 1..Len(conn) : conn[id] \in Outcomes
       /\ Count(stdout, FinishedLine) = 1)

\* A scan has ended whose first probe failed and whose second never
\* answered, with a later port still probed and found open.
C5_EndedDespiteFailures ==
    /\ pc = "done"
    /\ Len(conn) >= 3
    /\ conn[1] = "ConnectionError"
    /\ conn[2] = "TimedOut"
    /\ conn[3] = "Open"
    /\ Count(stdout, FinishedLine) = 1

(***************************************************************************)
(* Properties of parse_ports.  Numerals are read here by place value,      *)
(* independently of ParseU16.                                              *)
(***************************************************************************)
IsNumeral(t) == t # <<>> /\ \A i \in 1..Len(t) : IsDigit(t[i])

RECURSIVE NumeralValue(_)
NumeralValue(t) ==
    IF t = <<>> THEN 0
    ELSE NumeralValue(SubSeq(t, 1, Len(t) - 1)) * 10 + DigitVal(t[Len(t)])

IsPortNumeral(t) == IsNumeral(t) /\ NumeralValue(t) <= U16Max

\* The token is two port numerals around one dash, the first no larger than
\* the second.
IsAscendingRange(t) ==
    LET ps == Split(t, "-")
    IN  /\ Len(ps) = 2
        /\ IsPortNumeral(ps[1])
        /\ IsPortNumeral(ps[2])
        /\ NumeralValue(ps[1]) <= NumeralValue(ps[2])

Low(t) == NumeralValue(Split(t, "-")[1])
High(t) == NumeralValue(Split(t, "-")[2])

Ascending(a, b) == [i \in 1..(b - a + 1) |-> a + (i - 1)]

\* Some range token of the text has a bound that is empty or not a numeral.
HasMalformedRange(text) ==
    \E k \in 1..Len(Split(text, ",")) :
        LET t == Split(text, ",")[k]
        IN  /\ Contains(t, "-")
            /\ \E j \in 1..Len(Split(t, "-")) : ~IsNumeral(Split(t, "-")[j])

\* C6: parse_ports returns on a text with a malformed range, and the single
\* ports of its other tokens are in what it returns.
C6_MalformedRangeAbsorbed ==
    (ppc # "call" /\ HasMalformedRange(ports_arg)) =>
        /\ ppc = "returned"
        /\ \A k \in 1..Len(Split(ports_arg, ",")) :
              LET t == Split(ports_arg, ",")[k]
              IN  IsPortNumeral(t) => Count(ret, NumeralValue(t)) >= 1

\* No token of the text is a port numeral or a range of two port numerals.
NoTokenParses(text) ==
    \A k \in 1..Len(Split(text, ",")) :
        LET t == Split(text, ",")[k]
            ps == Split(t, "-")
        IN  /\ ~IsPortNumeral(t)
            /\ ~(Len(ps) = 2 /\ IsPortNumeral(ps[1]) /\ IsPortNumeral(ps[2]))

\* C7: on a text none of whose tokens parses to a port, the empty text
\* included, parse_ports returns the default sequence 1, 2, ..., 1024.
C7_UnparseableGivesDefault ==
    (ppc # "call" /\ NoTokenParses(ports_arg)) =>
        /\ ppc = "returned"
        /\ ret = Ascending(1, 1024)

\* C8: on the text "a-b" of two ports a <= b, parse_ports returns exactly
\* a, a+1, ..., b.
C8_RangeExpands ==
    (/\ ppc # "call"
     /\ ~Contains(ports_arg, ",")
     /\ IsAscendingRange(ports_arg)) =>
        /\ ppc = "returned"
        /\ Len(ret) = High(ports_arg) - Low(ports_arg) + 1
        /\ \A i \in 1..Len(ret) : ret[i] = Low(ports_arg) + (i - 1)

\* parse_ports has returned all 65536 ports for "0-65535".
C8_FullRangeReturned ==
    /\ ppc = "returned"
    /\ ports_arg = RangeText(0, 65535)
    /\ Len(ret) = 65536
    /\ ret[65536] = 65535

\* What a valid token yields: a port numeral itself, a range its expansion.
TokenYield(t) ==
    IF Contains(t, "-") THEN Ascending(Low(t), High(t)) ELSE <<NumeralValue(t)>>

RECURSIVE Concat(_)
Concat(seqs) == IF seqs = <<>> THEN <<>> ELSE Head(seqs) \o Concat(Tail(seqs))

IsValidList(text) ==
    /\ Contains(text, ",")
    /\ \A k \in 1..Len(Split(text, ",")) :
          LET t == Split(text, ",")[k]
          IN  IsPortNumeral(t) \/ IsAscendingRange(t)

Text_22_80_8000_8002 ==
    <<"2","2",",","8","0",",","8","0","0","0","-","8","0","0","2">>

\* C9: on a comma list of valid ports and ascending ranges, parse_ports
\* returns the yields of the tokens concatenated in token order; on
\* "22,80,8000-8002" it returns 22, 80, 8000, 8001, 8002.
C9_ListConcatenates ==
    /\ (ppc # "call" /\ IsValidList(ports_arg)) =>
          /\ ppc = "returned"
          /\ LET ts == Split(ports_arg, ",")
             IN  ret = Concat([k \in 1..Len(ts) |-> TokenYield(ts[k])])
    /\ (ppc # "call" /\ ports_arg = Text_22_80_8000_8002) =>
          ret = <<22, 80, 8000, 8001, 8002>>

\* parse_ports has returned for "22,80,8000-8002".
C9_MixedListReturned ==
    /\ ppc = "returned"
    /\ ports_arg = Text_22_80_8000_8002
    /\ Len(ret) = 5

\* C10: on a single port numeral p, with no comma and no dash, parse_ports
\* returns the one-element sequence p.
C10_SinglePort ==
    (ppc # "call" /\ IsPortNumeral(ports_arg)) =>
        /\ ppc = "returned"
        /\ ret = <<NumeralValue(ports_arg)>>

\* parse_ports has returned the largest port for its numeral.
C10_LargestPortReturned ==
    /\ ppc = "returned"
    /\ ports_arg = Fmt(65535)
    /\ ret = <<65535>>

\* A numeral whose value is beyond the u16 range.
IsOversizeNumeral(t) == IsNumeral(t) /\ NumeralValue(t) > U16Max

\* A range of two numerals at least one of which is oversize.
IsOversizeRange(t) ==
    LET ps == Split(t, "-")
    IN  /\ Len(ps) = 2
        /\ IsNumeral(ps[1])
        /\ IsNumeral(ps[2])
        /\ IsOversizeNumeral(ps[1]) \/ IsOversizeNumeral(ps[2])

\* A range of two port numerals, the first larger than the second.
IsReversedRange(t) ==
    LET ps == Split(t, "-")
    IN  /\ Len(ps) = 2
        /\ IsPortNumeral(ps[1])
        /\ IsPortNumeral(ps[2])
        /\ NumeralValue(ps[1]) > NumeralValue(ps[2])

\* What a token contributes when every token that is not a port numeral or
\* an ascending range is rejected.
YieldOrNothing(t) ==
    IF IsPortNumeral(t) \/ IsAscendingRange(t) THEN TokenYield(t) ELSE <<>>

\* What a token contributes when a reversed range is normalized.
YieldNormalized(t) ==
    IF IsReversedRange(t) THEN Ascending(High(t), Low(t)) ELSE YieldOrNothing(t)

\* C11: a numeral beyond 65535, alone, as a list item or as a bound of a
\* range, is rejected: parse_ports returns, and what it returns holds what
\* the other tokens yield and nothing for the token (alone, the token leaves
\* the result empty or the default sequence); no wrapped value appears.
C11_OversizeRejected ==
    (/\ ppc # "call"
     /\ \A k \in 1..Len(Split(ports_arg, ",")) :
           LET t == Split(ports_arg, ",")[k]
           IN  \/ IsPortNumeral(t) \/ IsAscendingRange(t)
               \/ IsOversizeNumeral(t) \/ IsOversizeRange(t)
     /\ \E k \in 1..Len(Split(ports_arg, ",")) :
           LET t == Split(ports_arg, ",")[k]
           IN  IsOversizeNumeral(t) \/ IsOversizeRange(t)) =>
        /\ ppc = "returned"
        /\ LET ts == Split(ports_arg, ",")
           IN  \/ ret = Concat([k \in 1..Len(ts) |-> YieldOrNothing(ts[k])])
               \/ ~Contains(ports_arg, ",") /\ ret = Ascending(1, 1024)

\* C12: what parse_ports returns holds no port number twice.
C12_PortsUnique ==
    ppc = "returned" => Cardinality({ret[i] : i \in 1..Len(ret)}) = Len(ret)

\* C14: a reversed range, alone or in a list, does not make parse_ports
\* panic, and contributes either nothing or its ascending sequence: the
\* result is what the tokens yield in order with every reversed range
\* rejected, or with every reversed range normalized.
C14_ReversedRangeRejected ==
    (/\ ppc # "call"
     /\ \A k \in 1..Len(Split(ports_arg, ",")) :
           LET t == Split(ports_arg, ",")[k]
           IN  IsPortNumeral(t) \/ IsAscendingRange(t) \/ IsReversedRange(t)
     /\ \E k \in 1..Len(Split(ports_arg, ",")) :
           IsReversedRange(Split(ports_arg, ",")[k])) =>
        /\ ppc = "returned"
        /\ LET ts == Split(ports_arg, ",")
           IN  \/ ret = Concat([k \in 1..Len(ts) |-> YieldOrNothing(ts[k])])
               \/ ret = Concat([k \in 1..Len(ts) |-> YieldNormalized(ts[k])])

Text_22_5_3_80 == <<"2","2",",","5","-","3",",","8","0">>

\* parse_ports has returned for "22,5-3,80", with nothing for the reversed
\* range between the two ports.
C14_ReversedInListReturned ==
    /\ ppc = "returned"
    /\ ports_arg = Text_22_5_3_80
    /\ ret = <<22, 80>>

(***************************************************************************)
(* Further properties of scan and open_port.                               *)
(***************************************************************************)
\* C13: the gate is a sliding window: the poll loop is about to wait, or
\* waits, for a completion only with the queue empty or the gate full, so a
\* completion with ports queued is followed by an admission, whatever the
\* other outstanding probes do.
C13_SlidingWindow ==
    (\/ pc = "pending"
     \/ pc = "poll_futures" /\ ~made_progress /\ ~ScanFinished(futures, stream_done)) =>
        \/ port_stream = <<>>
        \/ sc.concurrency > 0 /\ Cardinality(futures) = sc.concurrency

\* A port beyond the first k has been admitted while an older probe is still
\* waiting for its connect.
C13_AdmittedPastOlderProbe ==
    /\ sc.concurrency >= 2
    /\ Len(started) > sc.concurrency
    /\ Cardinality(futures) = sc.concurrency
    /\ \E id \in futures : id < Len(started) - 1 /\ conn[id] = "pending"
    /\ Len(started) \in futures

\* C15: a scan of the empty port sequence starts no probe, never waits, and
\* prints nothing but the completion line, once.
C15_EmptyScan ==
    sc.ports = <<>> =>
        /\ started = <<>>
        /\ futures = {}
        /\ pc # "pending"
        /\ stdout = IF pc = "done" THEN <<FinishedLine>> ELSE <<>>

\* The scan of the empty port sequence has ended.
C15_EmptyScanEnded ==
    /\ sc.ports = <<>>
    /\ pc = "done"
    /\ stdout = <<FinishedLine>>

\* C16: no step of scan or open_port changes the ScanConfig.
C16_ConfigUnchanged == [][sc' = sc]_vars

\* A verbose scan of several ports has run to its end.
C16_VerboseScanEnded ==
    /\ pc = "done"
    /\ sc.verbose
    /\ Len(sc.ports) >= 3
    /\ Len(stdout) = Len(sc.ports) + 1

\* C17: probes are started in the order of sc.ports: the ports of the
\* open_port calls so far are the first elements of sc.ports, in order.
C17_StartedInOrder ==
    /\ Len(started) <= Len(sc.ports)
    /\ \A i \in 1..Len(started) : started[i] = sc.ports[i]

\* Three probes were started, for different ports, and the second has
\* completed before the first.
C17_CompletedOutOfOrder ==
    /\ Len(started) >= 3
    /\ sc.ports[1] # sc.ports[2]
    /\ 1 \in futures
    /\ 2 \notin futures

\* The scans the command line starts with --concurrency 0.
InitZero == Init /\ sc.concurrency = 0

FairSpecZero ==
    /\ InitZero
    /\ [][Next]_vars
    /\ WF_vars(ScanStep)
    /\ \A id \in 1..MaxPorts : WF_vars(TimerElapses(id))

\* C18: with concurrency 0 the scan never waits with ports still queued,
\* starts no probe twice, and under fair scheduling ends with every port
\* probed once and the completion line printed.
C18_ZeroConcurrencyNoLimit ==
    /\ [](pc = "pending" => port_stream = <<>>)
    /\ [](Len(started) <= Len(sc.ports))
    /\ <>(/\ pc = "done"
          /\ started = sc.ports
          /\ Count(stdout, FinishedLine) = 1)

\* With concurrency 0 every port of the sequence is outstanding at once.
C18_AllPortsOutstanding ==
    /\ sc.concurrency = 0
    /\ Len(sc.ports) >= 3
    /\ Cardinality(futures) = Len(sc.ports)

\* The lines of stdout that are not the completion line.
PortLines == SelectSeq(stdout, LAMBDA l : l # FinishedLine)

\* C19: with concurrency 1 a probe is started only after the one before it
\* has completed, and a verbose scan prints one line per port in the order of
\* sc.ports, then the completion line.
C19_Serialized ==
    sc.concurrency = 1 =>
        /\ futures \subseteq {Len(started)}
        /\ sc.verbose =>
              /\ Len(PortLines) = Cardinality(Completed)
              /\ \A i \in 1..Len(PortLines) : PortLines[i].port = sc.ports[i]
              /\ \A i \in 1..Len(stdout) :
                    stdout[i] = FinishedLine => i = Len(sc.ports) + 1
              /\ pc = "done" => Len(stdout) = Len(sc.ports) + 1

\* A verbose scan of different ports, one probe at a time, has ended with an
\* open and a closed port.
C19_SerialVerboseScanEnded ==
    /\ sc.concurrency = 1
    /\ sc.verbose
    /\ pc = "done"
    /\ Len(sc.ports) >= 3
    /\ sc.ports[1] # sc.ports[2]
    /\ stdout[1].text = "closed"
    /\ stdout[2].text = "open"

====
